---- MODULE Spec2Model ----
(***************************************************************************)
(* Verification model of the Previz utility scripts.                       *)
(*                                                                         *)
(*   convert_pptx_fonts.py        the font tool: unzip, rewrite typeface   *)
(*                                attributes, rezip; in-place mode goes    *)
(*                                through a temporary output file          *)
(*   delete_level_and_assets.py   deletes the selected level and the       *)
(*                                packages only it depends on              *)
(*   create_metahuman_cloth_assets.py  builds a cloth asset, an outfit and *)
(*                                a wardrobe item through the editor API   *)
(*   set_all_lights_to_movable.py sets every light component of the       *)
(*                                loaded levels to Movable                 *)
(*                                                                         *)
(* Each script is a sequential program; its position is a pc variable and  *)
(* every statement that touches the file system or a host API is a step.   *)
(* What the environment decides (a failing write, whether two paths share  *)
(* a file system, the order a directory is listed in) is a                 *)
(* nondeterministic choice.                                                *)
(***************************************************************************)
EXTENDS Integers, Sequences, FiniteSets, TLC

(***************************************************************************)
(* Bounds of the model.                                                    *)
(***************************************************************************)
\* attributes per XML part
MaxAttrs == 1
\* packages of the asset registry besides the level and one outside package
MaxPkgs == 2
\* assets in one package
MaxAssets == 1
\* host capabilities missing at once
MaxMissing == 2
\* light components in the loaded levels
MaxLights == 2

(***************************************************************************)
(* convert_pptx_fonts.py: the data.                                        *)
(***************************************************************************)
\* the font given with -f/--font and the fonts found in the package
Fonts == {"Arial", "Noto Sans KR"}

\* An attribute key as ElementTree hands it over: the local name, or
\* "{uri}local" for a namespaced attribute, here as a sequence of tokens.
TypefaceKey == <<"typeface">>
NsTypefaceKey == <<"{", "urn:a", "}", "typeface">>
SizeKey == <<"sz">>
Keys == {TypefaceKey, NsTypefaceKey, SizeKey}

\* a typeface attribute names a font; the size attribute stands for every
\* attribute that is no typeface
Attr == [key : {TypefaceKey, NsTypefaceKey}, val : Fonts]
            \cup {[key |-> SizeKey, val |-> "1800"]}

\* the attributes of a document, in document order
AttrLists == UNION {[1..n -> Attr] : n \in 0..MaxAttrs}

\* The bytes of one part of the package.
\*   kind "xml"        a well-formed document; prefix is the namespace prefix
\*                     its text uses ("a" as authored, "ns0" as ElementTree
\*                     writes it), attrs its attributes
\*   kind "malformed"  text that is not well-formed XML
\*   kind "badenc"     text that is not well-formed and whose XML declaration
\*                     names an encoding Python has no codec for
\*   kind "binary"     not XML at all (an image)
\*   kind "none"       the package has no part of that name
XmlContent == [kind : {"xml"}, prefix : {"a", "ns0"}, attrs : AttrLists]
Malformed == [kind |-> "malformed", prefix |-> "-", attrs |-> <<>>]
BadEncoding == [kind |-> "badenc", prefix |-> "-", attrs |-> <<>>]
Binary == [kind |-> "binary", prefix |-> "-", attrs |-> <<>>]
NoPart == [kind |-> "none", prefix |-> "-", attrs |-> <<>>]

\* part names: the stem and the extension the glob looks at
Slide1 == [stem |-> "ppt/slides/slide1", ext |-> "xml"]
Slide2 == [stem |-> "ppt/slides/slide2", ext |-> "xml"]
Drawing == [stem |-> "ppt/drawings/vmlDrawing1", ext |-> "vml"]
Names == {Slide1, Slide2, Drawing}

\* what a part named n can hold in an input package
PartContents(n) ==
    IF n.ext = "xml"
    THEN XmlContent \cup {Malformed, BadEncoding, NoPart}
    ELSE {NoPart, Binary}
         \cup {[kind |-> "xml", prefix |-> "a",
                attrs |-> <<[key |-> TypefaceKey, val |-> f]>>] : f \in Fonts}

Packages == {p \in [Names -> XmlContent \cup {Malformed, BadEncoding, Binary, NoPart}] :
                \A n \in Names : p[n] \in PartContents(n)}

EmptyPackage == [n \in Names |-> NoPart]

\* A file of the file system: absent, a complete zip archive holding pkg, or
\* "partial": bytes that are no complete archive (a file just created or
\* truncated, an archive whose writing has not finished).
Absent == [st |-> "absent", pkg |-> EmptyPackage]
Partial == [st |-> "partial", pkg |-> EmptyPackage]
Complete(p) == [st |-> "complete", pkg |-> p]

Paths == {"source", "output", "tmp_output", "output2"}

\* no call of replace_font_in_xml has returned
NoReturn == [n \in Names |-> "-"]

VARIABLES
    fs,          \* Paths -> file
    new_font,    \* args.font
    inplace,     \* main: output == source
    same_fs,     \* the temporary file and the source share a file system
    source_pptx, \* convert_pptx_fonts: its first argument
    output_pptx, \* convert_pptx_fonts: its second argument
    tmpdir,      \* the extracted tree (EmptyPackage when there is none)
    tmpdir_up,   \* the TemporaryDirectory exists
    todo,        \* parts the rglob("*.xml") loop has not visited yet
    returned,    \* Names -> what replace_font_in_xml returned in this run
    rewritten,   \* parts tree.write has written in this run
    err,         \* the exception in flight or that ended the program
    pc,          \* position of the font tool
    run,         \* 1, and 2 for a second conversion of the first one's output
    orig,        \* the input package of the run (history)
    first_out,   \* the output package of run 1 (history)
    created,     \* temporary files and directories ever created (history)
    fs0          \* the file system when the program started (history)

fontVars == <<fs, new_font, inplace, same_fs, source_pptx, output_pptx, tmpdir,
              tmpdir_up, todo, returned, rewritten, err, pc, run, orig,
              first_out, created, fs0>>

(***************************************************************************)
(* delete_level_and_assets.py: the data.                                   *)
(***************************************************************************)
\* package names: the selected level's package, the packages that can
\* depend on each other, and one package the level never reaches
LevelPackage == 0
Pkgs == 1..MaxPkgs
OutsidePackage == MaxPkgs + 1
Nodes == {LevelPackage, OutsidePackage} \cup Pkgs

\* what the registry can hold as hard reference of a package by another
RefPairs == {e \in Nodes \X Pkgs : e[1] # e[2]}

\* object paths: the k-th asset of a package
LevelAsset == <<LevelPackage, 1>>

VARIABLES
    edges,              \* asset registry: <<a, b>> when a hard-depends on b
    queries,            \* get_dependencies calls made per package (history)
    entry,              \* the function the run entered at
    selected,           \* World assets in the Content Browser selection
    to_process,         \* _gather_recursive_dependencies: the stack
    visited,            \* _gather_recursive_dependencies
    dependencies,       \* _gather_recursive_dependencies
    candidate_packages, \* argument of _compute_exclusive_assets
    exclusive,          \* _compute_exclusive_assets
    changed,            \* _compute_exclusive_assets
    pass_rest,          \* what the for loop over list(exclusive) has left
    passes,             \* passes of the while loop begun (history)
    del_rest,           \* _delete_assets: sorted packages left
    cur_package,        \* _delete_assets: the package whose assets are deleted
    cur_rest,           \* _delete_assets: assets of it left, as indices
    assets_found,       \* what get_assets_by_package_name returned (history)
    attempts,           \* object paths given to delete_asset, in order (history)
    failures,           \* delete_asset calls that returned False
    lpc                 \* position of the level script

levelVars == <<edges, queries, entry, selected, to_process, visited, dependencies,
               candidate_packages, exclusive, changed, pass_rest, passes,
               del_rest, cur_package, cur_rest, assets_found, attempts,
               failures, lpc>>

(***************************************************************************)
(* create_metahuman_cloth_assets.py: the data.                             *)
(***************************************************************************)
\* len(CLOTHING_SKELETAL_MESH_PATHS)
NumClothingMeshes == 2

\* the attributes of the unreal module the script looks up
ClothClasses == {"ClothAssetFactory", "ClothAsset", "ClothAssetEditorSubsystem"}
OutfitClasses == {"MetaHumanOutfitAssetFactory", "MetaHumanOutfitAsset",
                  "MetaHumanSizedOutfitSource"}
WardrobeClasses == {"MetaHumanWardrobeItemFactory", "MetaHumanWardrobeItem"}

\* the subsystem object get_editor_subsystem returns
SubsystemObject == "get_editor_subsystem(ClothAssetEditorSubsystem)"

\* required_methods, in the order of the list
RequiredMethods == <<"reset_graph", "get_graph", "add_node", "get_output_pin",
                     "get_input_pin", "connect_pins", "compile_cloth_asset",
                     "get_terminal_node">>

\* the classes unreal.load_class is asked for
NodeClasses == {"ClothAssetGraphNode_SkeletalMeshImport",
                "ClothAssetGraphNode_MergeClothCollection"}

\* everything of the host the script needs and a host may lack
Capabilities ==
    ClothClasses \cup OutfitClasses \cup WardrobeClasses \cup {SubsystemObject}
        \cup {RequiredMethods[i] : i \in DOMAIN RequiredMethods} \cup NodeClasses

\* no exception
NoError == [type |-> "none", cause |-> "-", names |-> {}]

VARIABLES
    missing,      \* the capabilities this host lacks
    cpc,          \* position of the cloth script
    cerr,         \* the exception that ended it: its type, the missing
                  \* capability behind it ("-" when it is another failure) and
                  \* the capabilities its message names
    made,         \* assets created by create_asset
    saved,        \* assets saved by save_asset
    graph_reset,  \* reset_graph was called
    nodes_added,  \* add_node calls
    mesh_i        \* clothing meshes the loop has handled

clothVars == <<missing, cpc, cerr, made, saved, graph_reset, nodes_added, mesh_i>>

(***************************************************************************)
(* set_all_lights_to_movable.py: the data.                                 *)
(***************************************************************************)
\* unreal.EditorLevelLibrary.get_all_level_actors()
LevelActors == <<"actor_a", "actor_b">>
Actors == {LevelActors[i] : i \in DOMAIN LevelActors}

LightComponents == 1..MaxLights
\* get_light_component gave nothing that is a light component
NoComponent == 0

\* what get_editor_property("mobility") gives: a mobility, or it raises
MOVABLE == "Movable"
Mobilities == {"Static", MOVABLE}
Unreadable == "raises"

\* packages of the loaded levels; get_outermost and get_level can give None
LevelPackages == {"persistent_level", "sub_level"}
NoPackage == "None"

VARIABLES
    mobility,           \* what each component's mobility property holds
    mobility0,          \* the same before the first call (history)
    primary,            \* per actor: the component get_light_component gives
    owned,              \* per actor: what get_components_by_class gives
    actors_rest,        \* actors the for loop of line 97 has left
    actor,              \* the actor of the current turn
    light_components,   \* components the for loop of line 103 has left
    actor_changed,
    total_components,
    updated_components,
    touched_levels,
    modified,           \* components modify() was called on in this call
    dirtied,            \* components whose own package this call marked dirty
    actors_modified,    \* actors modify() was called on in this call
    dirty_packages,     \* packages mark_package_dirty() was called on
    first_total,        \* total_components of the first call (history)
    calls,              \* calls of convert_all_lights_to_movable begun
    lipc                \* position of the light script

lightVars == <<mobility, mobility0, primary, owned, actors_rest, actor,
               light_components, actor_changed, total_components,
               updated_components, touched_levels, modified, dirtied,
               actors_modified, dirty_packages, first_total, calls, lipc>>

\* the light script is not running
LightIdle ==
    /\ mobility = [c \in LightComponents |-> MOVABLE]
    /\ mobility0 = [c \in LightComponents |-> MOVABLE]
    /\ primary = [a \in Actors |-> NoComponent]
    /\ owned = [a \in Actors |-> {}]
    /\ actors_rest = <<>>
    /\ actor = "-"
    /\ light_components = <<>>
    /\ actor_changed = FALSE
    /\ total_components = 0
    /\ updated_components = 0
    /\ touched_levels = {}
    /\ modified = {}
    /\ dirtied = {}
    /\ actors_modified = {}
    /\ dirty_packages = {}
    /\ first_total = 0
    /\ calls = 0
    /\ lipc = "idle"

vars == <<fontVars, levelVars, clothVars, lightVars>>

\* the cloth script is not running
ClothIdle ==
    /\ missing = {}
    /\ cpc = "idle"
    /\ cerr = NoError
    /\ made = {}
    /\ saved = {}
    /\ graph_reset = FALSE
    /\ nodes_added = 0
    /\ mesh_i = 0

\* the level script is not running
LevelIdle ==
    /\ edges = {}
    /\ queries = [p \in Nodes |-> 0]
    /\ entry = "-"
    /\ selected = 0
    /\ to_process = <<>>
    /\ visited = {}
    /\ dependencies = {}
    /\ candidate_packages = {}
    /\ exclusive = {}
    /\ changed = FALSE
    /\ pass_rest = {}
    /\ passes = 0
    /\ del_rest = <<>>
    /\ cur_package = 0
    /\ cur_rest = <<>>
    /\ assets_found = [p \in Pkgs |-> 0]
    /\ attempts = <<>>
    /\ failures = 0
    /\ lpc = "idle"

\* the font tool is not running
FontIdle ==
    /\ fs = [q \in Paths |-> Absent]
    /\ new_font = "Noto Sans KR"
    /\ inplace = FALSE
    /\ same_fs = TRUE
    /\ source_pptx = "source"
    /\ output_pptx = "output"
    /\ tmpdir = EmptyPackage
    /\ tmpdir_up = FALSE
    /\ todo = {}
    /\ returned = NoReturn
    /\ rewritten = {}
    /\ err = "none"
    /\ pc = "idle"
    /\ run = 1
    /\ orig = EmptyPackage
    /\ first_out = EmptyPackage
    /\ created = {}
    /\ fs0 = fs

(***************************************************************************)
(* replace_font_in_xml                                                     *)
(***************************************************************************)
\* str.split("}", 1)[1]: what follows the first "}"
AfterFirstBrace(key) ==
    LET i == CHOOSE j \in 1..Len(key) :
                 key[j] = "}" /\ \A k \in 1..(j - 1) : key[k] # "}"
    IN SubSeq(key, i + 1, Len(key))

MutAttrName(key) == key

\* lines 23-26
AttrName(key) ==
    IF Head(key) = "{" THEN AfterFirstBrace(key) ELSE key

\* ET.parse: the tree, or the exception it raises
Parse(c) ==
    CASE c.kind = "xml" -> [result |-> "tree", attrs |-> c.attrs]
      [] c.kind = "badenc" -> [result |-> "LookupError", attrs |-> <<>>]
      [] OTHER -> [result |-> "ParseError", attrs |-> <<>>]

\* tree.write(xml_path, encoding="utf-8", xml_declaration=True): ElementTree
\* serialises with its own declaration and its own prefixes ns0, ns1, ...
TreeWrite(attrs) == [kind |-> "xml", prefix |-> "ns0", attrs |-> attrs]

MutNeedsChange(a, font) == AttrName(a.key) = <<"typeface">>

\* line 28
NeedsChange(a, font) == AttrName(a.key) = <<"typeface">> /\ a.val # font

MutSetTypefaces(attrs, font) == attrs

\* lines 20-30: the tree after the loop
SetTypefaces(attrs, font) ==
    [i \in DOMAIN attrs |->
        IF NeedsChange(attrs[i], font)
        THEN [attrs[i] EXCEPT !.val = font]
        ELSE attrs[i]]

\* lines 18-30: the flag after the loop
Replaced(attrs, font) == \E i \in DOMAIN attrs : NeedsChange(attrs[i], font)

\* rglob("*.xml") over the extracted tree
XmlFiles(tree) == {n \in Names : tree[n].kind # "none" /\ n.ext = "xml"}

(***************************************************************************)
(* convert_pptx_fonts, lines 38-58                                         *)
(***************************************************************************)
MutConvertEnter ==
    /\ UNCHANGED <<levelVars, clothVars, lightVars>>
    /\ pc = "convert"
    /\ tmpdir_up' = TRUE
    /\ created' = created \cup {"tmpdir"}
    /\ pc' = "extract"
    /\ UNCHANGED <<fs, new_font, inplace, same_fs, source_pptx, output_pptx,
                   tmpdir, todo, returned, rewritten, run, orig, first_out, fs0,
                   err>>

\* lines 39-42: the existence check, then the TemporaryDirectory
ConvertEnter ==
    /\ UNCHANGED <<levelVars, clothVars, lightVars>>
    /\ pc = "convert"
    /\ IF fs[source_pptx].st = "absent"
       THEN /\ err' = "FileNotFoundError"
            /\ pc' = "raised"
            /\ UNCHANGED <<tmpdir_up, created>>
       ELSE /\ tmpdir_up' = TRUE
            /\ created' = created \cup {"tmpdir"}
            /\ pc' = "extract"
            /\ UNCHANGED err
    /\ UNCHANGED <<fs, new_font, inplace, same_fs, source_pptx, output_pptx,
                   tmpdir, todo, returned, rewritten, run, orig, first_out, fs0>>

\* lines 45-46: extractall; the with-block removes the directory on an error
Extract ==
    /\ UNCHANGED <<levelVars, clothVars, lightVars>>
    /\ pc = "extract"
    /\ \E ok \in BOOLEAN :
        IF ok /\ fs[source_pptx].st = "complete"
        THEN /\ tmpdir' = fs[source_pptx].pkg
             /\ todo' = XmlFiles(fs[source_pptx].pkg)
             /\ orig' = fs[source_pptx].pkg
             /\ pc' = "rewrite"
             /\ UNCHANGED <<err, tmpdir_up>>
        ELSE /\ err' = "BadZipFile"
             /\ tmpdir_up' = FALSE
             /\ pc' = "raised"
             /\ UNCHANGED <<tmpdir, todo, orig>>
    /\ UNCHANGED <<fs, new_font, inplace, same_fs, source_pptx, output_pptx,
                   returned, rewritten, run, first_out, created, fs0>>

\* lines 48-49 with lines 10-35: one call of replace_font_in_xml
ReplaceFont ==
    /\ UNCHANGED <<levelVars, clothVars, lightVars>>
    /\ pc = "rewrite"
    /\ \E n \in todo :
        LET parsed == Parse(tmpdir[n])
            replaced == Replaced(parsed.attrs, new_font)
        IN CASE parsed.result = "ParseError" ->
                  /\ returned' = [returned EXCEPT ![n] = "False"]
                  /\ todo' = todo \ {n}
                  /\ UNCHANGED <<tmpdir, tmpdir_up, rewritten, err, pc>>
             [] parsed.result = "LookupError" ->
                  /\ err' = "LookupError"
                  /\ tmpdir' = EmptyPackage
                  /\ tmpdir_up' = FALSE
                  /\ todo' = {}
                  /\ pc' = "raised"
                  /\ UNCHANGED <<returned, rewritten>>
             [] OTHER ->
                  /\ tmpdir' = IF replaced
                               THEN [tmpdir EXCEPT ![n] =
                                        TreeWrite(SetTypefaces(parsed.attrs, new_font))]
                               ELSE tmpdir
                  /\ rewritten' = IF replaced THEN rewritten \cup {n} ELSE rewritten
                  /\ returned' = [returned EXCEPT ![n] =
                                     IF replaced THEN "True" ELSE "False"]
                  /\ todo' = todo \ {n}
                  /\ UNCHANGED <<tmpdir_up, err, pc>>
    /\ UNCHANGED <<fs, new_font, inplace, same_fs, source_pptx, output_pptx,
                   run, orig, first_out, created, fs0>>

\* lines 51-52
RemoveOutput ==
    /\ UNCHANGED <<levelVars, clothVars, lightVars>>
    /\ pc = "rewrite"
    /\ todo = {}
    /\ fs' = IF fs[output_pptx].st # "absent"
             THEN [fs EXCEPT ![output_pptx] = Absent]
             ELSE fs
    /\ pc' = "zip_open"
    /\ UNCHANGED <<new_font, inplace, same_fs, source_pptx, output_pptx, tmpdir,
                   tmpdir_up, todo, returned, rewritten, err, run, orig,
                   first_out, created, fs0>>

\* line 54: ZipFile(output_pptx, "w") creates the file
ZipOpen ==
    /\ UNCHANGED <<levelVars, clothVars, lightVars>>
    /\ pc = "zip_open"
    /\ fs' = [fs EXCEPT ![output_pptx] = Partial]
    /\ pc' = "zip_write"
    /\ UNCHANGED <<new_font, inplace, same_fs, source_pptx, output_pptx, tmpdir,
                   tmpdir_up, todo, returned, rewritten, err, run, orig,
                   first_out, created, fs0>>

\* lines 55-58: every file of the tree is written and the archive closed, or
\* a write fails and what was written so far stays at output_pptx
ZipWrite ==
    /\ UNCHANGED <<levelVars, clothVars, lightVars>>
    /\ pc = "zip_write"
    /\ \E ok \in BOOLEAN :
        IF ok
        THEN /\ fs' = [fs EXCEPT ![output_pptx] = Complete(tmpdir)]
             /\ first_out' = IF run = 1 THEN tmpdir ELSE first_out
             /\ pc' = "returned"
             /\ UNCHANGED err
        ELSE /\ err' = "OSError"
             /\ pc' = "raised"
             /\ UNCHANGED <<fs, first_out>>
    /\ tmpdir' = EmptyPackage
    /\ tmpdir_up' = FALSE
    /\ UNCHANGED <<new_font, inplace, same_fs, source_pptx, output_pptx, todo,
                   returned, rewritten, run, orig, created, fs0>>

\* a second conversion, of the first one's output, with the same font
ConvertAgain ==
    /\ UNCHANGED <<levelVars, clothVars, lightVars>>
    /\ pc = "returned"
    /\ run = 1
    /\ run' = 2
    /\ source_pptx' = output_pptx
    /\ output_pptx' = "output2"
    /\ returned' = NoReturn
    /\ rewritten' = {}
    /\ pc' = "convert"
    /\ UNCHANGED <<fs, new_font, inplace, same_fs, tmpdir, tmpdir_up, todo, err,
                   orig, first_out, created,
                   fs0>>

(***************************************************************************)
(* convert_pptx_fonts called on a package: source to output                *)
(***************************************************************************)
InitConvert ==
    /\ LevelIdle
    /\ ClothIdle
    /\ LightIdle
    /\ new_font \in Fonts
    /\ \E p \in Packages :
         fs = [q \in Paths |-> IF q = "source" THEN Complete(p) ELSE Absent]
    /\ inplace = FALSE
    /\ same_fs = TRUE
    /\ source_pptx = "source"
    /\ output_pptx = "output"
    /\ tmpdir = EmptyPackage
    /\ tmpdir_up = FALSE
    /\ todo = {}
    /\ returned = NoReturn
    /\ rewritten = {}
    /\ err = "none"
    /\ pc = "convert"
    /\ run = 1
    /\ orig = EmptyPackage
    /\ first_out = EmptyPackage
    /\ created = {}
    /\ fs0 = fs

NextConvert ==
    \/ ConvertEnter
    \/ Extract
    \/ ReplaceFont
    \/ RemoveOutput
    \/ ZipOpen
    \/ ZipWrite
    \/ ConvertAgain

SpecConvert == InitConvert /\ [][NextConvert]_vars

(***************************************************************************)
(* main, lines 81-95                                                       *)
(***************************************************************************)
\* lines 85-89 and 95: in-place mode creates the temporary output file
\* (NamedTemporaryFile, delete=False: an empty file) before the conversion
MainStart ==
    /\ UNCHANGED <<levelVars, clothVars, lightVars>>
    /\ pc = "main"
    /\ IF inplace
       THEN /\ fs' = [fs EXCEPT !["tmp_output"] = Partial]
            /\ created' = created \cup {"tmp_output"}
            /\ output_pptx' = "tmp_output"
       ELSE /\ output_pptx' = "output"
            /\ UNCHANGED <<fs, created>>
    /\ source_pptx' = "source"
    /\ pc' = "convert"
    /\ UNCHANGED <<new_font, inplace, same_fs, tmpdir, tmpdir_up, todo, returned,
                   rewritten, err, run, orig, first_out, fs0>>

\* convert_pptx_fonts is back: line 90 follows in in-place mode, and an
\* exception goes through the finally block there
MainResume ==
    /\ UNCHANGED <<levelVars, clothVars, lightVars>>
    /\ pc \in {"returned", "raised"}
    /\ pc' = IF ~inplace THEN "exit"
             ELSE IF pc = "returned" THEN "move" ELSE "finally"
    /\ UNCHANGED <<fs, new_font, inplace, same_fs, source_pptx, output_pptx,
                   tmpdir, tmpdir_up, todo, returned, rewritten, err, run, orig,
                   first_out, created, fs0>>

\* line 90, shutil.move(tmp_output_path, source): os.rename when both are on
\* one file system and the platform renames over an existing file; otherwise
\* copy2 onto the source (which opens and truncates it) and unlink
Move ==
    /\ UNCHANGED <<levelVars, clothVars, lightVars>>
    /\ pc = "move"
    /\ IF same_fs
       THEN /\ fs' = [fs EXCEPT !["source"] = fs["tmp_output"],
                                !["tmp_output"] = Absent]
            /\ pc' = "finally"
       ELSE /\ fs' = [fs EXCEPT !["source"] = Partial]
            /\ pc' = "copy"
    /\ UNCHANGED <<new_font, inplace, same_fs, source_pptx, output_pptx, tmpdir,
                   tmpdir_up, todo, returned, rewritten, err, run, orig,
                   first_out, created, fs0>>

\* the copy of shutil.move: the data is written and the temporary file
\* unlinked, or a write fails
MoveCopy ==
    /\ UNCHANGED <<levelVars, clothVars, lightVars>>
    /\ pc = "copy"
    /\ \E ok \in BOOLEAN :
        IF ok
        THEN /\ fs' = [fs EXCEPT !["source"] = fs["tmp_output"],
                                 !["tmp_output"] = Absent]
             /\ UNCHANGED err
        ELSE /\ err' = "OSError"
             /\ UNCHANGED fs
    /\ pc' = "finally"
    /\ UNCHANGED <<new_font, inplace, same_fs, source_pptx, output_pptx, tmpdir,
                   tmpdir_up, todo, returned, rewritten, run, orig, first_out,
                   created, fs0>>

\* lines 91-93
Finally ==
    /\ UNCHANGED <<levelVars, clothVars, lightVars>>
    /\ pc = "finally"
    /\ fs' = IF fs["tmp_output"].st # "absent"
             THEN [fs EXCEPT !["tmp_output"] = Absent]
             ELSE fs
    /\ pc' = "exit"
    /\ UNCHANGED <<new_font, inplace, same_fs, source_pptx, output_pptx, tmpdir,
                   tmpdir_up, todo, returned, rewritten, err, run, orig,
                   first_out, created, fs0>>

\* the packages main is run on: one slide, and possibly an image
MainPackages ==
    {p \in Packages : p[Slide2] = NoPart /\ p[Drawing] \in {NoPart, Binary}}

InitMain ==
    /\ LevelIdle
    /\ ClothIdle
    /\ LightIdle
    /\ new_font \in Fonts
    /\ inplace \in BOOLEAN
    /\ same_fs \in BOOLEAN
    /\ \E p \in MainPackages, src \in BOOLEAN, out \in BOOLEAN :
         fs = [q \in Paths |->
                 CASE q = "source" -> IF src THEN Complete(p) ELSE Absent
                   [] q = "output" -> IF out /\ ~inplace
                                      THEN Complete(EmptyPackage) ELSE Absent
                   [] OTHER -> Absent]
    /\ (inplace \/ same_fs)
    /\ source_pptx = "source"
    /\ output_pptx = "output"
    /\ tmpdir = EmptyPackage
    /\ tmpdir_up = FALSE
    /\ todo = {}
    /\ returned = NoReturn
    /\ rewritten = {}
    /\ err = "none"
    /\ pc = "main"
    /\ run = 1
    /\ orig = EmptyPackage
    /\ first_out = EmptyPackage
    /\ created = {}
    /\ fs0 = fs

NextMain ==
    \/ MainStart
    \/ ConvertEnter
    \/ Extract
    \/ ReplaceFont
    \/ RemoveOutput
    \/ ZipOpen
    \/ ZipWrite
    \/ MainResume
    \/ Move
    \/ MoveCopy
    \/ Finally

SpecMain == InitMain /\ [][NextMain]_vars

(***************************************************************************)
(* Properties of the font tool                                             *)
(***************************************************************************)
\* "its local name is typeface": the key without its namespace
IsTypeface(a) == a.key[Len(a.key)] = "typeface"

\* every typeface attribute of the document c names font
AllTypefaces(c, font) ==
    \A i \in DOMAIN c.attrs : IsTypeface(c.attrs[i]) => c.attrs[i].val = font

\* the document c has a typeface attribute that names another font
HasOtherTypeface(c, font) ==
    /\ c.kind = "xml"
    /\ \E i \in DOMAIN c.attrs : IsTypeface(c.attrs[i]) /\ c.attrs[i].val # font

\* the package convert_pptx_fonts has written
Output == fs[output_pptx].pkg

\* C1 as stated: after convert_pptx_fonts completes, every typeface attribute
\* of every XML part of the output package has the requested font.
C1_EveryXmlPartConverted ==
    pc = "returned" =>
        \A n \in Names : Output[n].kind = "xml" => AllTypefaces(Output[n], new_font)

\* C1 amended: after convert_pptx_fonts completes, every typeface attribute
\* (namespaced or not) of every well-formed XML part whose name matches
\* *.xml has the requested font; the other parts are not visited.
C1_EveryVisitedPartConverted ==
    pc = "returned" =>
        \A n \in Names :
            (n.ext = "xml" /\ Output[n].kind = "xml")
                => AllTypefaces(Output[n], new_font)

\* C1 witness: a completed conversion whose input slide had a namespaced
\* typeface attribute naming another font
C1_Witness ==
    /\ pc = "returned"
    /\ run = 1
    /\ \E i \in DOMAIN orig[Slide1].attrs :
          /\ orig[Slide1].attrs[i].key = NsTypefaceKey
          /\ orig[Slide1].attrs[i].val # new_font
          /\ Output[Slide1].attrs[i].val = new_font

\* same document but for the values of typeface attributes
SameButTypefaces(c, d) ==
    /\ c.kind = d.kind
    /\ c.prefix = d.prefix
    /\ Len(c.attrs) = Len(d.attrs)
    /\ \A i \in DOMAIN c.attrs :
          /\ c.attrs[i].key = d.attrs[i].key
          /\ IsTypeface(c.attrs[i]) \/ c.attrs[i].val = d.attrs[i].val

\* C3: after the conversion the non-font content is identical to the input:
\* the same part names, every part not rewritten byte for byte, and in a
\* rewritten part everything but the typeface values.
C3_NonFontContentIdentical ==
    pc = "returned" =>
        \A n \in Names :
            /\ (Output[n].kind = "none") = (orig[n].kind = "none")
            /\ SameButTypefaces(orig[n], Output[n])
            /\ ~HasOtherTypeface(orig[n], new_font) => Output[n] = orig[n]

\* C4: a second conversion of the first one's output with the same font
\* rewrites no part (replace_font_in_xml returns False for each), and its
\* output has the content of the first.
C4_SecondRunChangesNothing ==
    run = 2 =>
        /\ rewritten = {}
        /\ \A n \in Names : returned[n] # "True"
        /\ pc = "returned" => Output = first_out

\* C4 witness: the second conversion is done, and the first had changed the
\* package
C4_Witness ==
    /\ run = 2
    /\ pc = "returned"
    /\ first_out # fs["source"].pkg
    /\ \E n \in Names : returned[n] = "False"

\* text that is not well-formed XML
IsMalformed(c) == c.kind \in {"malformed", "badenc"}

\* C6: a malformed XML part is skipped: replace_font_in_xml returns False on
\* it and leaves it unchanged, no exception of it ends the conversion, the
\* well-formed parts are converted and the malformed one is in the output as
\* it was.
C6_MalformedPartSkipped ==
    /\ err \in {"none", "FileNotFoundError", "BadZipFile", "OSError"}
    /\ \A n \in Names :
          (n.ext = "xml" /\ IsMalformed(orig[n]) /\ pc = "returned")
              => /\ returned[n] = "False"
                 /\ n \notin rewritten
                 /\ Output[n] = orig[n]
                 /\ \A m \in Names :
                       (m.ext = "xml" /\ orig[m].kind = "xml")
                           => AllTypefaces(Output[m], new_font)

\* C7: replace_font_in_xml writes a part if and only if one of its typeface
\* attributes named another font, and returns True exactly then; a part it
\* did not write keeps its bytes.
C7_WrittenIffChanged ==
    \A n \in Names :
        returned[n] # "-" =>
            /\ (n \in rewritten) = HasOtherTypeface(orig[n], new_font)
            /\ (returned[n] = "True") = HasOtherTypeface(orig[n], new_font)
            /\ (tmpdir_up /\ n \notin rewritten) => tmpdir[n] = orig[n]
            /\ (tmpdir_up /\ n \in rewritten) => tmpdir[n] # orig[n]

\* C7 witness: one part was written and returned True, another already named
\* the font in its typeface attribute and returned False
C7_Witness ==
    /\ returned[Slide1] = "True"
    /\ Slide1 \in rewritten
    /\ returned[Slide2] = "False"
    /\ Slide2 \notin rewritten
    /\ orig[Slide2].kind = "xml"
    /\ \E i \in DOMAIN orig[Slide2].attrs : IsTypeface(orig[Slide2].attrs[i])

\* C2: in in-place mode, when an error ends the program the file at the
\* source path is the complete original or the complete converted package.
C2_SourceNeverCorrupted ==
    (inplace /\ pc = "exit" /\ err # "none") =>
        \/ fs["source"] = fs0["source"]
        \/ fs["source"] = Complete(first_out)

\* C5 as stated: with no source file nothing is created, removed or written,
\* in both modes.
C5_NothingCreated ==
    fs0["source"].st = "absent" =>
        /\ created = {}
        /\ fs["output"] = fs0["output"]
        /\ pc = "exit" => err = "FileNotFoundError"

\* C5 amended: with no source file convert_pptx_fonts raises
\* FileNotFoundError before it creates its temporary directory, extracts, or
\* removes or writes an output file; explicit-output mode creates nothing at
\* all, and in-place mode only the temporary output file that main creates
\* before the call and removes again before the program ends.
C5_NoWorkBeyondTempFile ==
    fs0["source"].st = "absent" =>
        /\ "tmpdir" \notin created
        /\ ~tmpdir_up
        /\ pc \in {"main", "convert", "raised", "finally", "exit"}
        /\ fs["output"] = fs0["output"]
        /\ fs["source"] = Absent
        /\ created \subseteq (IF inplace THEN {"tmp_output"} ELSE {})
        /\ pc = "exit" => (err = "FileNotFoundError" /\ fs["tmp_output"] = Absent)

\* C5 witness: in-place mode has ended on a missing source
C5_Witness ==
    /\ fs0["source"].st = "absent"
    /\ inplace
    /\ pc = "exit"
    /\ err = "FileNotFoundError"
    /\ "tmp_output" \in created

(***************************************************************************)
(* delete_level_and_assets.py                                              *)
(***************************************************************************)
\* asset_registry.get_dependencies(p, DEP_OPTIONS)
GetDependencies(p) == {e[2] : e \in {x \in edges : x[1] = p}}

\* asset_registry.get_referencers(p, DEP_OPTIONS)
GetReferencers(p) == {e[1] : e \in {x \in edges : x[2] = p}}

\* the orders a list holding the members of S can have
Orders(S) ==
    {f \in [1..Cardinality(S) -> S] :
        \A i, j \in 1..Cardinality(S) : f[i] = f[j] => i = j}

\* sorted(S)
RECURSIVE Sorted(_)
Sorted(S) ==
    IF S = {} THEN <<>>
    ELSE LET m == CHOOSE x \in S : \A y \in S : x <= y
         IN <<m>> \o Sorted(S \ {m})

\* lines 101-107 with _get_selected_level_asset_data, lines 26-37: exactly
\* one selected World asset, or an error is logged and the script returns
SelectLevel ==
    /\ UNCHANGED <<fontVars, clothVars, lightVars>>
    /\ lpc = "select"
    /\ \E n \in 0..2 :
        /\ selected' = n
        /\ IF n = 1
           THEN /\ to_process' = <<LevelPackage>>
                /\ lpc' = "gather"
           ELSE /\ lpc' = "done"
                /\ UNCHANGED to_process
    /\ UNCHANGED <<edges, queries, entry, visited, dependencies, candidate_packages,
                   exclusive, changed, pass_rest, passes, del_rest, cur_package,
                   cur_rest, assets_found, attempts, failures>>

\* the while loop without the visited test of lines 48-49
MutGatherStep ==
    /\ UNCHANGED <<fontVars, clothVars, lightVars>>
    /\ lpc = "gather"
    /\ to_process # <<>>
    /\ LET current == to_process[Len(to_process)]
           rest == SubSeq(to_process, 1, Len(to_process) - 1)
           Push(d) == d # LevelPackage /\ d \notin visited \cup {current}
       IN \E direct_dependencies \in Orders(GetDependencies(current)) :
              /\ visited' = visited \cup {current}
              /\ queries' = [queries EXCEPT ![current] = @ + 1]
              /\ dependencies' =
                    dependencies \cup (GetDependencies(current) \ {LevelPackage})
              /\ to_process' = rest \o SelectSeq(direct_dependencies, Push)
    /\ UNCHANGED <<edges, entry, selected, candidate_packages, exclusive, changed,
                   pass_rest, passes, del_rest, cur_package, cur_rest,
                   assets_found, attempts, failures, lpc>>

\* lines 46-59: one turn of the while loop of _gather_recursive_dependencies
GatherStep ==
    /\ UNCHANGED <<fontVars, clothVars, lightVars>>
    /\ lpc = "gather"
    /\ to_process # <<>>
    /\ LET current == to_process[Len(to_process)]
           rest == SubSeq(to_process, 1, Len(to_process) - 1)
           Push(d) == d # LevelPackage /\ d \notin visited \cup {current}
       IN IF current \in visited
          THEN /\ to_process' = rest
               /\ UNCHANGED <<visited, dependencies, queries>>
          ELSE \E direct_dependencies \in Orders(GetDependencies(current)) :
                  /\ visited' = visited \cup {current}
                  /\ queries' = [queries EXCEPT ![current] = @ + 1]
                  /\ dependencies' =
                        dependencies \cup (GetDependencies(current) \ {LevelPackage})
                  /\ to_process' = rest \o SelectSeq(direct_dependencies, Push)
    /\ UNCHANGED <<edges, entry, selected, candidate_packages, exclusive, changed,
                   pass_rest, passes, del_rest, cur_package, cur_rest,
                   assets_found, attempts, failures, lpc>>

\* lines 61-62 and 109-115: the result becomes candidate_packages
GatherReturn ==
    /\ UNCHANGED <<fontVars, clothVars, lightVars>>
    /\ lpc = "gather"
    /\ to_process = <<>>
    /\ candidate_packages' = dependencies \ {LevelPackage}
    /\ lpc' = IF entry = "_gather_recursive_dependencies"
              THEN "done" ELSE "exclusive_enter"
    /\ UNCHANGED <<edges, queries, entry, selected, to_process, visited, dependencies,
                   exclusive, changed, pass_rest, passes, del_rest, cur_package,
                   cur_rest, assets_found, attempts, failures>>

\* lines 67-68
ExclusiveEnter ==
    /\ UNCHANGED <<fontVars, clothVars, lightVars>>
    /\ lpc = "exclusive_enter"
    /\ exclusive' = candidate_packages
    /\ changed' = TRUE
    /\ lpc' = "exclusive_while"
    /\ UNCHANGED <<edges, queries, entry, selected, to_process, visited, dependencies,
                   candidate_packages, pass_rest, passes, del_rest, cur_package,
                   cur_rest, assets_found, attempts, failures>>

\* lines 70-72: the while condition holds; list(exclusive) is taken
ExclusivePass ==
    /\ UNCHANGED <<fontVars, clothVars, lightVars>>
    /\ lpc = "exclusive_while"
    /\ changed /\ exclusive # {}
    /\ changed' = FALSE
    /\ pass_rest' = exclusive
    /\ passes' = passes + 1
    /\ lpc' = "exclusive_for"
    /\ UNCHANGED <<edges, queries, entry, selected, to_process, visited, dependencies,
                   candidate_packages, exclusive, del_rest, cur_package, cur_rest,
                   assets_found, attempts, failures>>

MutExclusiveVisit ==
    /\ UNCHANGED <<fontVars, clothVars, lightVars>>
    /\ lpc = "exclusive_for"
    /\ \E package \in pass_rest :
        /\ exclusive' =
              IF \E referencer \in GetReferencers(package) :
                    referencer # LevelPackage /\ referencer \notin exclusive
              THEN exclusive \ {package}
              ELSE exclusive
        /\ pass_rest' = pass_rest \ {package}
    /\ UNCHANGED <<edges, queries, entry, selected, to_process, visited, dependencies,
                   candidate_packages, passes, del_rest, cur_package, cur_rest,
                   assets_found, attempts, failures, lpc, changed>>

\* lines 72-80: one package of the list, in whatever order the set gives
ExclusiveVisit ==
    /\ UNCHANGED <<fontVars, clothVars, lightVars>>
    /\ lpc = "exclusive_for"
    /\ \E package \in pass_rest :
        /\ IF \E referencer \in GetReferencers(package) :
                 referencer # LevelPackage /\ referencer \notin exclusive
           THEN /\ exclusive' = exclusive \ {package}
                /\ changed' = TRUE
           ELSE UNCHANGED <<exclusive, changed>>
        /\ pass_rest' = pass_rest \ {package}
    /\ UNCHANGED <<edges, queries, entry, selected, to_process, visited, dependencies,
                   candidate_packages, passes, del_rest, cur_package, cur_rest,
                   assets_found, attempts, failures, lpc>>

\* line 72: the list is exhausted, back to the while condition
ExclusivePassEnd ==
    /\ UNCHANGED <<fontVars, clothVars, lightVars>>
    /\ lpc = "exclusive_for"
    /\ pass_rest = {}
    /\ lpc' = "exclusive_while"
    /\ UNCHANGED <<edges, queries, entry, selected, to_process, visited, dependencies,
                   candidate_packages, exclusive, changed, pass_rest, passes,
                   del_rest, cur_package, cur_rest, assets_found, attempts,
                   failures>>

\* line 81, and lines 115-125 and 86 of the caller: sorted(package_names)
ExclusiveReturn ==
    /\ UNCHANGED <<fontVars, clothVars, lightVars>>
    /\ lpc = "exclusive_while"
    /\ ~(changed /\ exclusive # {})
    /\ IF entry = "delete_selected_level_and_dependencies"
       THEN /\ del_rest' = Sorted(exclusive)
            /\ lpc' = "delete"
       ELSE /\ lpc' = "done"
            /\ UNCHANGED del_rest
    /\ UNCHANGED <<edges, queries, entry, selected, to_process, visited, dependencies,
                   candidate_packages, exclusive, changed, pass_rest, passes,
                   cur_package, cur_rest, assets_found, attempts, failures>>

\* lines 86-90: the next package and its assets; none is a warning
DeletePackage ==
    /\ UNCHANGED <<fontVars, clothVars, lightVars>>
    /\ lpc = "delete"
    /\ cur_rest = <<>>
    /\ del_rest # <<>>
    /\ \E n \in 0..MaxAssets :
        /\ assets_found' = [assets_found EXCEPT ![Head(del_rest)] = n]
        /\ cur_rest' = [k \in 1..n |-> k]
    /\ cur_package' = Head(del_rest)
    /\ del_rest' = Tail(del_rest)
    /\ UNCHANGED <<edges, queries, entry, selected, to_process, visited, dependencies,
                   candidate_packages, exclusive, changed, pass_rest, passes,
                   attempts, failures, lpc>>

MutDeleteAsset ==
    /\ UNCHANGED <<fontVars, clothVars, lightVars>>
    /\ lpc = "delete"
    /\ cur_rest # <<>>
    /\ \E ok \in BOOLEAN :
        /\ failures' = IF ok THEN failures ELSE failures + 1
        /\ lpc' = IF ok THEN lpc ELSE "done"
    /\ attempts' = Append(attempts, <<cur_package, Head(cur_rest)>>)
    /\ cur_rest' = Tail(cur_rest)
    /\ UNCHANGED <<edges, queries, entry, selected, to_process, visited, dependencies,
                   candidate_packages, exclusive, changed, pass_rest, passes,
                   del_rest, cur_package, assets_found>>

\* lines 91-96: delete_asset on one asset; False is logged, nothing more
DeleteAsset ==
    /\ UNCHANGED <<fontVars, clothVars, lightVars>>
    /\ lpc = "delete"
    /\ cur_rest # <<>>
    /\ \E ok \in BOOLEAN :
        failures' = IF ok THEN failures ELSE failures + 1
    /\ attempts' = Append(attempts, <<cur_package, Head(cur_rest)>>)
    /\ cur_rest' = Tail(cur_rest)
    /\ UNCHANGED <<edges, queries, entry, selected, to_process, visited, dependencies,
                   candidate_packages, exclusive, changed, pass_rest, passes,
                   del_rest, cur_package, assets_found, lpc>>

\* lines 127-131
DeleteLevel ==
    /\ UNCHANGED <<fontVars, clothVars, lightVars>>
    /\ lpc = "delete"
    /\ cur_rest = <<>>
    /\ del_rest = <<>>
    /\ \E ok \in BOOLEAN :
        failures' = IF ok THEN failures ELSE failures + 1
    /\ attempts' = Append(attempts, LevelAsset)
    /\ lpc' = "done"
    /\ UNCHANGED <<edges, queries, entry, selected, to_process, visited, dependencies,
                   candidate_packages, exclusive, changed, pass_rest, passes,
                   del_rest, cur_package, cur_rest, assets_found>>

\* _compute_exclusive_assets on a registry and a set of candidates
InitExclusive ==
    /\ FontIdle
    /\ ClothIdle
    /\ LightIdle
    /\ edges \in SUBSET RefPairs
    /\ queries = [p \in Nodes |-> 0]
    /\ entry = "_compute_exclusive_assets"
    /\ selected = 1
    /\ to_process = <<>>
    /\ visited = {}
    /\ dependencies = {}
    /\ candidate_packages \in SUBSET Pkgs
    /\ exclusive = {}
    /\ changed = FALSE
    /\ pass_rest = {}
    /\ passes = 0
    /\ del_rest = <<>>
    /\ cur_package = 0
    /\ cur_rest = <<>>
    /\ assets_found = [p \in Pkgs |-> 0]
    /\ attempts = <<>>
    /\ failures = 0
    /\ lpc = "exclusive_enter"

NextExclusive ==
    \/ ExclusiveEnter
    \/ ExclusivePass
    \/ ExclusiveVisit
    \/ ExclusivePassEnd
    \/ ExclusiveReturn

SpecExclusive == InitExclusive /\ [][NextExclusive]_vars

\* hard dependencies a registry can hold among the root and the packages:
\* cycles and cycles through the root included; a package referencing
\* itself is the root or the first package, the packages being alike
DepPairs ==
    {e \in ({LevelPackage} \cup Pkgs) \X ({LevelPackage} \cup Pkgs) :
        e[1] = e[2] => e[1] \in {LevelPackage, LevelPackage + 1}}

\* _gather_recursive_dependencies(asset_registry, LevelPackage), lines 42-44
InitGather ==
    /\ FontIdle
    /\ ClothIdle
    /\ LightIdle
    /\ edges \in SUBSET DepPairs
    /\ queries = [p \in Nodes |-> 0]
    /\ entry = "_gather_recursive_dependencies"
    /\ selected = 1
    /\ to_process = <<LevelPackage>>
    /\ visited = {}
    /\ dependencies = {}
    /\ candidate_packages = {}
    /\ exclusive = {}
    /\ changed = FALSE
    /\ pass_rest = {}
    /\ passes = 0
    /\ del_rest = <<>>
    /\ cur_package = 0
    /\ cur_rest = <<>>
    /\ assets_found = [p \in Pkgs |-> 0]
    /\ attempts = <<>>
    /\ failures = 0
    /\ lpc = "gather"

NextGather ==
    \/ GatherStep
    \/ GatherReturn

\* the interpreter keeps running the loop: a turn that can be taken is taken
SpecGather == InitGather /\ [][NextGather]_vars /\ WF_vars(NextGather)

\* delete_selected_level_and_dependencies on a registry
InitDelete ==
    /\ FontIdle
    /\ ClothIdle
    /\ LightIdle
    /\ edges \in SUBSET RefPairs
    /\ queries = [p \in Nodes |-> 0]
    /\ entry = "delete_selected_level_and_dependencies"
    /\ selected = 0
    /\ to_process = <<>>
    /\ visited = {}
    /\ dependencies = {}
    /\ candidate_packages = {}
    /\ exclusive = {}
    /\ changed = FALSE
    /\ pass_rest = {}
    /\ passes = 0
    /\ del_rest = <<>>
    /\ cur_package = 0
    /\ cur_rest = <<>>
    /\ assets_found = [p \in Pkgs |-> 0]
    /\ attempts = <<>>
    /\ failures = 0
    /\ lpc = "select"

NextDelete ==
    \/ SelectLevel
    \/ GatherStep
    \/ GatherReturn
    \/ ExclusiveEnter
    \/ ExclusivePass
    \/ ExclusiveVisit
    \/ ExclusivePassEnd
    \/ ExclusiveReturn
    \/ DeletePackage
    \/ DeleteAsset
    \/ DeleteLevel

SpecDelete == InitDelete /\ [][NextDelete]_vars

(***************************************************************************)
(* Properties of the level script                                          *)
(***************************************************************************)
\* S is closed: every referencer of a member is the level or a member
Closed(S) ==
    \A p \in S : GetReferencers(p) \subseteq S \cup {LevelPackage}

\* the largest closed subset of the candidates
LargestClosed == UNION {S \in SUBSET candidate_packages : Closed(S)}

\* C8: _compute_exclusive_assets terminates (the while loop begins at most
\* one pass per candidate, and one more) and returns the largest subset of
\* the candidates whose members are referenced only by the level and by
\* members, whatever order the candidates are visited in: no returned package
\* has a referencer outside the level and the returned set.
C8_LargestExclusiveSet ==
    /\ passes <= Cardinality(candidate_packages) + 1
    /\ LargestClosed \subseteq exclusive \/ lpc = "exclusive_enter"
    /\ lpc = "done" =>
          /\ exclusive = LargestClosed
          /\ exclusive \subseteq candidate_packages
          /\ Closed(exclusive)

\* C8 witness: the function has returned after more than one pass, having
\* dropped a candidate that only the level and candidates reference
C8_Witness ==
    /\ lpc = "done"
    /\ passes > 1
    /\ \E p \in candidate_packages \ exclusive :
          GetReferencers(p) \subseteq candidate_packages \cup {LevelPackage}

\* the object paths of the assets found in the packages of S
AssetsOf(S) == {<<p, k>> : p \in S, k \in 1..MaxAssets} \cap
               {x \in Pkgs \X (1..MaxAssets) : x[2] <= assets_found[x[1]]}

\* C9: a failing delete_asset or an empty package does not stop the batch:
\* when the script ends, deletion has been attempted exactly once for every
\* asset of every exclusive package and then for the level asset, which is
\* attempted last and only after all exclusive packages.
C9_BatchRunsToTheEnd ==
    /\ \A i, j \in DOMAIN attempts : attempts[i] = attempts[j] => i = j
    /\ \A i \in DOMAIN attempts :
          attempts[i] = LevelAsset => (i = Len(attempts) /\ lpc = "done")
    /\ (lpc = "done" /\ selected = 1) =>
          /\ {attempts[i] : i \in DOMAIN attempts}
                = AssetsOf(exclusive) \cup {LevelAsset}
          /\ attempts[Len(attempts)] = LevelAsset
          /\ del_rest = <<>> /\ cur_rest = <<>>

\* C9 witness: the script has ended after a failed delete_asset and a package
\* without assets, with assets of other packages attempted after the failure
C9_Witness ==
    /\ lpc = "done"
    /\ selected = 1
    /\ failures = 1
    /\ Cardinality(exclusive) > 1
    /\ \E p \in exclusive : assets_found[p] = 0
    /\ Len(attempts) > 1

\* the packages one hard-dependency edge away from a member of S
Successors(S) == UNION {GetDependencies(p) : p \in S}

\* the packages reachable from the root by one or more edges
RECURSIVE ReachableFrom(_)
ReachableFrom(S) ==
    IF Successors(S) \subseteq S THEN S
    ELSE ReachableFrom(S \cup Successors(S))

Reachable == ReachableFrom(GetDependencies(LevelPackage))

\* _gather_recursive_dependencies has returned
Gathered == entry = "_gather_recursive_dependencies" /\ lpc = "done"

\* C11: on every dependency graph, cycles and cycles through the root
\* included, _gather_recursive_dependencies returns; what it returns is exactly
\* the set of packages reachable from the root by one or more edges, without
\* the root; and get_dependencies is called at most once per package.
C11_GatherReturnsReachable ==
    /\ [](\A p \in Nodes : queries[p] <= 1)
    /\ [](Gathered => candidate_packages = Reachable \ {LevelPackage})
    /\ <>Gathered

\* a run that returned on a graph with a cycle through the root and a cycle
\* among the packages, with a package reached over two edges
C11_Witness ==
    /\ Gathered
    /\ LevelPackage \in Reachable
    /\ \E p \in Pkgs, q \in Pkgs :
          /\ p # q
          /\ <<p, q>> \in edges /\ <<q, p>> \in edges
          /\ q \notin GetDependencies(LevelPackage)
          /\ q \in candidate_packages
    /\ \A p \in candidate_packages \cup {LevelPackage} : queries[p] = 1

(***************************************************************************)
(* create_metahuman_cloth_assets.py                                        *)
(***************************************************************************)
\* _require_attr, lines 35-39: the RuntimeError for a missing attribute
RequireError(attr_name) ==
    [type |-> "RuntimeError", cause |-> attr_name, names |-> {attr_name}]

\* a RuntimeError of load_asset, create_asset, save_asset or of a None check
\* that no missing capability is behind
OtherError == [type |-> "RuntimeError", cause |-> "-", names |-> {}]

\* the first name of the sequence the host lacks, "-" when it has them all
FirstMissing(attr_names) ==
    IF \E i \in DOMAIN attr_names : attr_names[i] \in missing
    THEN attr_names[CHOOSE i \in DOMAIN attr_names :
                        /\ attr_names[i] \in missing
                        /\ \A j \in 1..(i - 1) : attr_names[j] \notin missing]
    ELSE "-"

\* lines 184-187: ensure_directory and the three load_asset calls
LoadMeshes ==
    /\ UNCHANGED <<fontVars, levelVars, lightVars>>
    /\ cpc = "main"
    /\ \E ok \in BOOLEAN :
        IF ok
        THEN cpc' = "cloth_create" /\ UNCHANGED cerr
        ELSE cpc' = "raised" /\ cerr' = OtherError
    /\ UNCHANGED <<missing, made, saved, graph_reset, nodes_added, mesh_i>>

\* lines 75-77: the factory, the class, create_asset
ClothCreate ==
    /\ UNCHANGED <<fontVars, levelVars, lightVars>>
    /\ cpc = "cloth_create"
    /\ LET lacking == FirstMissing(<<"ClothAssetFactory", "ClothAsset">>)
       IN IF lacking # "-"
          THEN /\ cerr' = RequireError(lacking)
               /\ cpc' = "raised"
               /\ UNCHANGED made
          ELSE \E ok \in BOOLEAN :
                 IF ok
                 THEN /\ made' = made \cup {"cloth"}
                      /\ cpc' = "cloth_subsystem"
                      /\ UNCHANGED cerr
                 ELSE /\ cerr' = OtherError
                      /\ cpc' = "raised"
                      /\ UNCHANGED made
    /\ UNCHANGED <<missing, saved, graph_reset, nodes_added, mesh_i>>

\* lines 79-81: unreal.ClothAssetEditorSubsystem is looked up as a plain
\* attribute, so a host without it raises AttributeError; a None subsystem
\* is the RuntimeError of line 81
ClothSubsystem ==
    /\ UNCHANGED <<fontVars, levelVars, lightVars>>
    /\ cpc = "cloth_subsystem"
    /\ IF "ClothAssetEditorSubsystem" \in missing
       THEN /\ cerr' = [type |-> "AttributeError",
                        cause |-> "ClothAssetEditorSubsystem",
                        names |-> {"ClothAssetEditorSubsystem"}]
            /\ cpc' = "raised"
       ELSE IF SubsystemObject \in missing
       THEN /\ cerr' = RequireError(SubsystemObject)
            /\ cpc' = "raised"
       ELSE /\ cpc' = "cloth_methods"
            /\ UNCHANGED cerr
    /\ UNCHANGED <<missing, made, saved, graph_reset, nodes_added, mesh_i>>

\* lines 83-97: the first required method the subsystem lacks
ClothMethods ==
    /\ UNCHANGED <<fontVars, levelVars, lightVars>>
    /\ cpc = "cloth_methods"
    /\ LET lacking == FirstMissing(RequiredMethods)
       IN IF lacking # "-"
          THEN /\ cerr' = RequireError(lacking)
               /\ cpc' = "raised"
          ELSE /\ cpc' = "cloth_reset"
               /\ UNCHANGED cerr
    /\ UNCHANGED <<missing, made, saved, graph_reset, nodes_added, mesh_i>>

\* lines 100-105: reset_graph, then the two node classes; one message names
\* both of them
ClothResetGraph ==
    /\ UNCHANGED <<fontVars, levelVars, lightVars>>
    /\ cpc = "cloth_reset"
    /\ graph_reset' = TRUE
    /\ IF NodeClasses \cap missing # {}
       THEN /\ cerr' = [type |-> "RuntimeError",
                        cause |-> CHOOSE c \in NodeClasses \cap missing : TRUE,
                        names |-> NodeClasses]
            /\ cpc' = "raised"
       ELSE /\ cpc' = "cloth_graph"
            /\ UNCHANGED cerr
    /\ UNCHANGED <<missing, made, saved, nodes_added, mesh_i>>

\* lines 107-116: the terminal node and the graph, either can be None
ClothGraph ==
    /\ UNCHANGED <<fontVars, levelVars, lightVars>>
    /\ cpc = "cloth_graph"
    /\ \E ok \in BOOLEAN :
        IF ok
        THEN cpc' = "cloth_meshes" /\ UNCHANGED cerr
        ELSE cpc' = "raised" /\ cerr' = OtherError
    /\ UNCHANGED <<missing, made, saved, graph_reset, nodes_added, mesh_i>>

\* lines 118-133: one clothing mesh: its import node, and from the second
\* mesh on a merge node
ClothAddMesh ==
    /\ UNCHANGED <<fontVars, levelVars, lightVars>>
    /\ cpc = "cloth_meshes"
    /\ mesh_i < NumClothingMeshes
    /\ nodes_added' = nodes_added + (IF mesh_i = 0 THEN 1 ELSE 2)
    /\ mesh_i' = mesh_i + 1
    /\ UNCHANGED <<missing, cpc, cerr, made, saved, graph_reset>>

\* lines 135-142: connect to the terminal node, compile, save_asset
ClothSave ==
    /\ UNCHANGED <<fontVars, levelVars, lightVars>>
    /\ cpc = "cloth_meshes"
    /\ mesh_i = NumClothingMeshes
    /\ \E ok \in BOOLEAN :
        IF ok /\ mesh_i > 0
        THEN /\ saved' = saved \cup {"cloth"}
             /\ cpc' = "outfit_create"
             /\ UNCHANGED cerr
        ELSE /\ cerr' = OtherError
             /\ cpc' = "raised"
             /\ UNCHANGED saved
    /\ UNCHANGED <<missing, made, graph_reset, nodes_added, mesh_i>>

\* lines 150-152
OutfitCreate ==
    /\ UNCHANGED <<fontVars, levelVars, lightVars>>
    /\ cpc = "outfit_create"
    /\ LET lacking == FirstMissing(<<"MetaHumanOutfitAssetFactory",
                                     "MetaHumanOutfitAsset">>)
       IN IF lacking # "-"
          THEN /\ cerr' = RequireError(lacking)
               /\ cpc' = "raised"
               /\ UNCHANGED made
          ELSE \E ok \in BOOLEAN :
                 IF ok
                 THEN /\ made' = made \cup {"outfit"}
                      /\ cpc' = "outfit_fill"
                      /\ UNCHANGED cerr
                 ELSE /\ cerr' = OtherError
                      /\ cpc' = "raised"
                      /\ UNCHANGED made
    /\ UNCHANGED <<missing, saved, graph_reset, nodes_added, mesh_i>>

\* lines 154-161
OutfitFill ==
    /\ UNCHANGED <<fontVars, levelVars, lightVars>>
    /\ cpc = "outfit_fill"
    /\ IF "MetaHumanSizedOutfitSource" \in missing
       THEN /\ cerr' = RequireError("MetaHumanSizedOutfitSource")
            /\ cpc' = "raised"
            /\ UNCHANGED saved
       ELSE \E ok \in BOOLEAN :
              IF ok
              THEN /\ saved' = saved \cup {"outfit"}
                   /\ cpc' = "wardrobe"
                   /\ UNCHANGED cerr
              ELSE /\ cerr' = OtherError
                   /\ cpc' = "raised"
                   /\ UNCHANGED saved
    /\ UNCHANGED <<missing, made, graph_reset, nodes_added, mesh_i>>

\* lines 169-176: create_asset, then save_asset
WardrobeItem ==
    /\ UNCHANGED <<fontVars, levelVars, lightVars>>
    /\ cpc = "wardrobe"
    /\ LET lacking == FirstMissing(<<"MetaHumanWardrobeItemFactory",
                                     "MetaHumanWardrobeItem">>)
       IN IF lacking # "-"
          THEN /\ cerr' = RequireError(lacking)
               /\ cpc' = "raised"
               /\ UNCHANGED <<made, saved>>
          ELSE \E created_ok \in BOOLEAN, saved_ok \in BOOLEAN :
                 /\ made' = IF created_ok THEN made \cup {"wardrobe"} ELSE made
                 /\ saved' = IF created_ok /\ saved_ok
                             THEN saved \cup {"wardrobe"} ELSE saved
                 /\ cerr' = IF created_ok /\ saved_ok THEN cerr ELSE OtherError
                 /\ cpc' = IF created_ok /\ saved_ok THEN "done" ELSE "raised"
    /\ UNCHANGED <<missing, graph_reset, nodes_added, mesh_i>>

\* main on a host that lacks some capabilities
InitCloth ==
    /\ FontIdle
    /\ LevelIdle
    /\ LightIdle
    /\ missing \in {S \in SUBSET Capabilities : Cardinality(S) <= MaxMissing}
    /\ cpc = "main"
    /\ cerr = NoError
    /\ made = {}
    /\ saved = {}
    /\ graph_reset = FALSE
    /\ nodes_added = 0
    /\ mesh_i = 0

NextCloth ==
    \/ LoadMeshes
    \/ ClothCreate
    \/ ClothSubsystem
    \/ ClothMethods
    \/ ClothResetGraph
    \/ ClothGraph
    \/ ClothAddMesh
    \/ ClothSave
    \/ OutfitCreate
    \/ OutfitFill
    \/ WardrobeItem

SpecCloth == InitCloth /\ [][NextCloth]_vars

(***************************************************************************)
(* Properties of the cloth script                                          *)
(***************************************************************************)
\* the capabilities create_cloth_asset needs
ClothCapabilities == Capabilities \ (OutfitClasses \cup WardrobeClasses)

\* C10: whenever a required class, subsystem or method is missing the run
\* aborts with a RuntimeError naming it, and nothing runs after the abort:
\* a run never ends normally on such a host, and when a capability of
\* create_cloth_asset is missing no node was added and nothing saved, when
\* one of the outfit is missing no outfit was saved and no wardrobe item
\* made, when one of the wardrobe item is missing no wardrobe item was made.
C10_MissingCapabilityAborts ==
    /\ cpc = "done" => missing = {}
    /\ (cpc = "raised" /\ cerr.cause # "-") =>
          /\ cerr.type = "RuntimeError"
          /\ cerr.cause \in missing
          /\ cerr.cause \in cerr.names
          /\ cerr.cause \in ClothCapabilities =>
                (nodes_added = 0 /\ saved = {} /\ made \subseteq {"cloth"})
          /\ cerr.cause \in OutfitClasses =>
                (saved = {"cloth"} /\ "wardrobe" \notin made)
          /\ cerr.cause \in WardrobeClasses =>
                (saved = {"cloth", "outfit"} /\ "wardrobe" \notin made)

(***************************************************************************)
(* set_all_lights_to_movable.py                                            *)
(***************************************************************************)
\* list(dict.fromkeys(components)) without the de-duplication
MutUnique(components) == components

\* line 56, list(dict.fromkeys(components)): the first occurrence of every
\* member, in order
RECURSIVE Unique(_)
Unique(components) ==
    IF components = <<>> THEN <<>>
    ELSE LET front == Unique(SubSeq(components, 1, Len(components) - 1))
             last == components[Len(components)]
         IN IF \E i \in DOMAIN front : front[i] = last
            THEN front
            ELSE Append(front, last)

\* _gather_light_components, lines 32-57: the component of
\* get_light_component when the actor has the method, it does not raise and
\* the result is a light component, then what get_components_by_class gives
\* (nothing when it raises), de-duplicated
GatherLightComponentsOf(a) ==
    Unique((IF primary[a] # NoComponent THEN <<primary[a]>> ELSE <<>>)
              \o Sorted(owned[a]))

\* lines 92-95
LightsStart ==
    /\ UNCHANGED <<fontVars, levelVars, clothVars>>
    /\ lipc = "start"
    /\ actors_rest' = LevelActors
    /\ total_components' = 0
    /\ updated_components' = 0
    /\ touched_levels' = {}
    /\ lipc' = "for_actor"
    /\ UNCHANGED <<mobility, mobility0, primary, owned, actor, light_components,
                   actor_changed, modified, dirtied, actors_modified,
                   dirty_packages, first_total, calls>>

\* lines 97-102: the next actor; one without light components is passed over
NextActor ==
    /\ UNCHANGED <<fontVars, levelVars, clothVars>>
    /\ lipc = "for_actor"
    /\ actors_rest # <<>>
    /\ LET a == Head(actors_rest)
       IN IF GatherLightComponentsOf(a) = <<>>
          THEN /\ actors_rest' = Tail(actors_rest)
               /\ UNCHANGED <<actor, light_components, actor_changed, lipc>>
          ELSE /\ actor' = a
               /\ light_components' = GatherLightComponentsOf(a)
               /\ actor_changed' = FALSE
               /\ lipc' = "for_component"
               /\ UNCHANGED actors_rest
    /\ UNCHANGED <<mobility, mobility0, primary, owned, total_components,
                   updated_components, touched_levels, modified, dirtied,
                   actors_modified, dirty_packages, first_total, calls>>

\* lines 103-107 with _set_mobility, lines 60-86: a component whose mobility
\* cannot be read or is Movable is left alone; any other is modified, set to
\* Movable and its outermost package, when it has one, marked dirty
SetMobility ==
    /\ UNCHANGED <<fontVars, levelVars, clothVars>>
    /\ lipc = "for_component"
    /\ light_components # <<>>
    /\ LET component == Head(light_components)
       IN /\ light_components' = Tail(light_components)
          /\ total_components' = total_components + 1
          /\ IF mobility[component] = Unreadable \/ mobility[component] = MOVABLE
             THEN UNCHANGED <<mobility, modified, dirtied, dirty_packages,
                              updated_components, actor_changed>>
             ELSE /\ modified' = modified \cup {component}
                  /\ mobility' = [mobility EXCEPT ![component] = MOVABLE]
                  /\ \E outer_package \in LevelPackages \cup {NoPackage} :
                        IF outer_package # NoPackage
                        THEN /\ dirty_packages' = dirty_packages \cup {outer_package}
                             /\ dirtied' = dirtied \cup {component}
                        ELSE UNCHANGED <<dirty_packages, dirtied>>
                  /\ updated_components' = updated_components + 1
                  /\ actor_changed' = TRUE
    /\ UNCHANGED <<mobility0, primary, owned, actors_rest, actor, touched_levels,
                   actors_modified, first_total, calls, lipc>>

\* lines 109-117: a changed actor is modified and its level's package,
\* when there is one, remembered
ActorDone ==
    /\ UNCHANGED <<fontVars, levelVars, clothVars>>
    /\ lipc = "for_component"
    /\ light_components = <<>>
    /\ IF actor_changed
       THEN /\ actors_modified' = actors_modified \cup {actor}
            /\ \E package \in LevelPackages \cup {NoPackage} :
                  touched_levels' = IF package # NoPackage
                                    THEN touched_levels \cup {package}
                                    ELSE touched_levels
       ELSE UNCHANGED <<actors_modified, touched_levels>>
    /\ actors_rest' = Tail(actors_rest)
    /\ lipc' = "for_actor"
    /\ UNCHANGED <<mobility, mobility0, primary, owned, actor, light_components,
                   actor_changed, total_components, updated_components,
                   modified, dirtied, dirty_packages, first_total, calls>>

\* lines 119-125: the touched packages are marked dirty, the summary logged
MarkLevels ==
    /\ UNCHANGED <<fontVars, levelVars, clothVars>>
    /\ lipc = "for_actor"
    /\ actors_rest = <<>>
    /\ dirty_packages' = dirty_packages \cup touched_levels
    /\ lipc' = "done"
    /\ UNCHANGED <<mobility, mobility0, primary, owned, actors_rest, actor,
                   light_components, actor_changed, total_components,
                   updated_components, touched_levels, modified, dirtied,
                   actors_modified, first_total, calls>>

\* convert_all_lights_to_movable called once more on the same levels
ConvertLightsAgain ==
    /\ UNCHANGED <<fontVars, levelVars, clothVars>>
    /\ lipc = "done"
    /\ calls = 1
    /\ calls' = 2
    /\ first_total' = total_components
    /\ modified' = {}
    /\ dirtied' = {}
    /\ actors_modified' = {}
    /\ dirty_packages' = {}
    /\ lipc' = "start"
    /\ UNCHANGED <<mobility, mobility0, primary, owned, actors_rest, actor,
                   light_components, actor_changed, total_components,
                   updated_components, touched_levels>>

\* the components an actor has: those the two calls give
ComponentsOf(a) ==
    (IF primary[a] # NoComponent THEN {primary[a]} ELSE {}) \cup owned[a]

\* convert_all_lights_to_movable on loaded levels; a component belongs to
\* one actor
InitLights ==
    /\ FontIdle
    /\ LevelIdle
    /\ ClothIdle
    /\ mobility0 \in [LightComponents -> Mobilities \cup {Unreadable}]
    /\ mobility = mobility0
    /\ primary \in [Actors -> LightComponents \cup {NoComponent}]
    /\ owned \in [Actors -> SUBSET LightComponents]
    /\ \A a, b \in Actors : a # b => ComponentsOf(a) \cap ComponentsOf(b) = {}
    /\ actors_rest = <<>>
    /\ actor = "-"
    /\ light_components = <<>>
    /\ actor_changed = FALSE
    /\ total_components = 0
    /\ updated_components = 0
    /\ touched_levels = {}
    /\ modified = {}
    /\ dirtied = {}
    /\ actors_modified = {}
    /\ dirty_packages = {}
    /\ first_total = 0
    /\ calls = 1
    /\ lipc = "start"

NextLights ==
    \/ LightsStart
    \/ NextActor
    \/ SetMobility
    \/ ActorDone
    \/ MarkLevels
    \/ ConvertLightsAgain

SpecLights == InitLights /\ [][NextLights]_vars

(***************************************************************************)
(* Properties of the light script                                          *)
(***************************************************************************)
\* the light components of the level actors
AllLightComponents == UNION {ComponentsOf(a) : a \in Actors}

\* the components whose mobility could be read and was not Movable before
\* the first call
WereNotMovable ==
    {c \in AllLightComponents : mobility0[c] \in Mobilities \ {MOVABLE}}

\* C12: after convert_all_lights_to_movable every light component of every
\* actor whose mobility can be read is Movable; only components that were not
\* Movable are modified or have their package marked dirty; a component is
\* counted once per actor although get_light_component and
\* get_components_by_class both give it; the updated count is the number of
\* components that were not Movable and at most the total; a second call
\* updates nothing and touches no actor and no package.
C12_AllLightsMovable ==
    /\ modified \subseteq WereNotMovable
    /\ dirtied \subseteq modified
    /\ updated_components <= total_components
    /\ lipc = "done" =>
          /\ \A c \in AllLightComponents :
                mobility[c] # Unreadable => mobility[c] = MOVABLE
          /\ total_components = Cardinality(AllLightComponents)
    /\ (lipc = "done" /\ calls = 1) =>
          /\ updated_components = Cardinality(WereNotMovable)
          /\ modified = WereNotMovable
          /\ (WereNotMovable = {}) => (actors_modified = {} /\ dirty_packages = {})
    /\ (lipc = "done" /\ calls = 2) =>
          /\ updated_components = 0
          /\ total_components = first_total
          /\ modified = {}
          /\ actors_modified = {}
          /\ dirty_packages = {}

\* a second call has ended on levels where an actor gives the same component
\* by both calls, with a component that was not Movable and one that was
\* Movable or could not be read
C12_Witness ==
    /\ lipc = "done"
    /\ calls = 2
    /\ \E a \in Actors : primary[a] # NoComponent /\ primary[a] \in owned[a]
    /\ WereNotMovable # {}
    /\ \E c \in AllLightComponents : mobility0[c] # "Static"

====
